---- MODULE Spec2Model ----
(***************************************************************************)
(* College-student bandwidth model: the baseline script and its v8, v13    *)
(* and v18 revisions.                                                      *)
(*                                                                         *)
(* Units.  Bandwidth values are kept in hundredths of a Mbps (every table  *)
(* entry and every threshold of the sources is a multiple of 0.01), hours  *)
(* in tenths of an hour.  Arithmetic is exact: the rounding of IEEE-754    *)
(* doubles in numpy is not represented.  Python index i (0..47) is TLA+    *)
(* index i+1.                                                              *)
(***************************************************************************)
EXTENDS Integers, Sequences, FiniteSets, TLC

NumSlots == 48

SlotIdx == 1..NumSlots

Bands == {"2.4GHz", "5GHz", "6GHz"}

Max2(a, b) == IF a >= b THEN a ELSE b

Min2(a, b) == IF a <= b THEN a ELSE b

\* a 48-element array given by its elements, built element by element
RECURSIVE tabulate(_, _, _)
tabulate(f, lo, hi) ==
    IF lo > hi THEN <<>>
    ELSE IF lo = hi THEN << f[lo] >>
    ELSE LET mid == (lo + hi) \div 2
         IN tabulate(f, lo, mid) \o tabulate(f, mid + 1, hi)

np_array(f) == tabulate(f, 1, NumSlots)

\* self.hours = np.arange(0, 24, 0.5), in tenths of an hour
hours == np_array([i \in SlotIdx |-> 5 * (i - 1)])

\* np.zeros(48)
np_zeros == np_array([i \in SlotIdx |-> 0])

\* np.clip(a, a_min, a_max) = minimum(a_max, maximum(a, a_min))
np_clip(x, a_min, a_max) == Min2(a_max, Max2(x, a_min))

RECURSIVE np_sum(_)
np_sum(s) == IF s = <<>> THEN 0 ELSE s[1] + np_sum(Tail(s))

\* variant: the minimum is taken instead of the maximum
RECURSIVE np_max_as_min(_)
np_max_as_min(s) ==
    IF Len(s) = 1 THEN s[1] ELSE Min2(s[1], np_max_as_min(Tail(s)))

RECURSIVE np_max(_)
np_max(s) == IF Len(s) = 1 THEN s[1] ELSE Max2(s[1], np_max(Tail(s)))

\* np.argmax: Python index of the first occurrence of the maximum
RECURSIVE argmax_from(_, _, _)
argmax_from(s, k, best) ==
    IF k > Len(s) THEN best - 1
    ELSE argmax_from(s, k + 1, IF s[k] > s[best] THEN k ELSE best)

np_argmax(s) == argmax_from(s, 2, 1)

\* np.mean as an exact fraction num/den
np_mean(s) == [num |-> np_sum(s), den |-> Len(s)]

\* dict item assignment d[k] = v
Put(d, k, v) == [x \in (DOMAIN d) \cup {k} |-> IF x = k THEN v ELSE d[x]]

EmptyDict == [x \in {} |-> 0]

\* band_data[band][i] += x, on the three values of one slot
AddTo(slot, band, x) == [slot EXCEPT ![band] = @ + x]

ZeroSlot == [b \in Bands |-> 0]

\* get_total_bandwidth (identical text in all four files)
RECURSIVE total_over(_, _)
total_over(bandwidth_data, keys) ==
    IF keys = {} THEN np_zeros
    ELSE LET k == CHOOSE x \in keys : TRUE
             rest == total_over(bandwidth_data, keys \ {k})
         IN np_array([i \in SlotIdx |-> rest[i] + bandwidth_data[k][i]])

get_total_bandwidth(bandwidth_data) ==
    total_over(bandwidth_data, DOMAIN bandwidth_data)

(***************************************************************************)
(* Baseline                                                                *)
(***************************************************************************)
baseline_smartphone ==
    <<
       100, 50, 30, 20, 20, 30, 200, 300, 500, 400, 800, 1200,
       1000, 800, 500, 300, 200, 150, 100, 150, 200, 500, 1000, 800,
       1200, 1500, 800, 400, 300, 200, 300, 250, 200, 150, 300, 400,
       500, 800, 1000, 1200, 800, 600, 1000, 1200, 800, 1000, 800, 600 >>

baseline_laptop ==
    <<
       2000, 1500, 50, 30, 30, 50, 100, 80, 100, 200, 300, 500,
       800, 1200, 1500, 800, 500, 400, 600, 1000, 800, 1200, 1000, 600,
       1200, 1000, 800, 1500, 1800, 1200, 800, 1000, 1200, 800, 500, 300,
       1500, 2000, 2500, 2200, 1800, 1200, 800, 1000, 1500, 2000, 2200, 2000 >>

baseline_tablet ==
    <<
       100, 200, 150, 100, 50, 50, 30, 20, 20, 30, 100, 200,
       300, 200, 100, 50, 30, 200, 300, 250, 200, 300, 200, 150,
       200, 300, 400, 300, 250, 200, 150, 100, 50, 30, 200, 400,
       300, 500, 800, 1000, 600, 400, 200, 300, 800, 1200, 1000, 800 >>

baseline_smartwatch ==
    <<
       1, 1, 1, 1, 1, 1, 1, 1, 2, 5, 8, 10,
       15, 12, 50, 30, 10, 8, 10, 15, 10, 8, 6, 5,
       8, 10, 8, 6, 5, 10, 25, 30, 20, 15, 10, 8,
       10, 12, 15, 10, 8, 6, 5, 8, 10, 6, 4, 2 >>

baseline_generate_bandwidth_data ==
    [ smartphone |-> baseline_smartphone, laptop |-> baseline_laptop,
      tablet |-> baseline_tablet, smartwatch |-> baseline_smartwatch ]

(***************************************************************************)
(* v8                                                                     *)
(***************************************************************************)
v8_smartphone ==
    <<
       100, 50, 30, 20, 20, 30, 200, 300, 500, 400, 800, 1200,
       1000, 800, 500, 300, 200, 150, 100, 150, 200, 500, 1000, 800,
       1200, 1500, 800, 400, 300, 200, 300, 250, 200, 150, 300, 400,
       500, 800, 1000, 1200, 800, 600, 1000, 1200, 800, 1000, 800, 600 >>

v8_laptop ==
    <<
       2000, 1500, 50, 30, 30, 50, 100, 80, 100, 200, 300, 500,
       800, 1200, 1500, 800, 500, 400, 600, 1000, 800, 1200, 1000, 600,
       1200, 1000, 800, 1500, 1800, 1200, 800, 1000, 1200, 800, 500, 300,
       1500, 2000, 2500, 2200, 1800, 1200, 800, 1000, 1500, 2000, 2200, 2000 >>

v8_tablet ==
    <<
       100, 200, 150, 100, 50, 50, 30, 20, 20, 30, 100, 200,
       300, 200, 100, 50, 30, 200, 300, 250, 200, 300, 200, 150,
       200, 300, 400, 300, 250, 200, 150, 100, 50, 30, 200, 400,
       300, 500, 800, 1000, 600, 400, 200, 300, 800, 1200, 1000, 800 >>

v8_smartwatch ==
    <<
       1, 1, 1, 1, 1, 1, 1, 1, 2, 5, 8, 10,
       15, 12, 50, 30, 10, 8, 10, 15, 10, 8, 6, 5,
       8, 10, 8, 6, 5, 10, 25, 30, 20, 15, 10, 8,
       10, 12, 15, 10, 8, 6, 5, 8, 10, 6, 4, 2 >>

v8_generate_bandwidth_data ==
    [ smartphone |-> v8_smartphone, laptop |-> v8_laptop,
      tablet |-> v8_tablet, smartwatch |-> v8_smartwatch ]

\* variant: a laptop at exactly 15 Mbps is already sent to 6GHz
v8_wifi_slot_laptop_inclusive(bandwidth_data, i) ==
    LET hour == hours[i]
        s1 == AddTo(ZeroSlot, "2.4GHz", bandwidth_data["smartwatch"][i])
        phone_bw == bandwidth_data["smartphone"][i]
        s2 == IF phone_bw > 800 THEN AddTo(s1, "6GHz", phone_bw)
              ELSE AddTo(s1, "5GHz", phone_bw)
        laptop_bw == bandwidth_data["laptop"][i]
        s3 == IF laptop_bw >= 1500 THEN AddTo(s2, "6GHz", laptop_bw)
              ELSE IF laptop_bw > 500 THEN AddTo(s2, "5GHz", laptop_bw)
              ELSE AddTo(s2, "2.4GHz", laptop_bw)
        tablet_bw == bandwidth_data["tablet"][i]
        s4 == IF tablet_bw > 300 THEN AddTo(s3, "5GHz", tablet_bw)
              ELSE AddTo(s3, "2.4GHz", tablet_bw)
        s5 == IF 150 <= hour /\ hour < 160 /\ phone_bw <= 800
              THEN AddTo(AddTo(s4, "5GHz", 0 - phone_bw), "2.4GHz", phone_bw)
              ELSE s4
    IN s5

\* body of the loop "for i in range(48)" of _generate_wifi_band_data
v8_wifi_slot(bandwidth_data, i) ==
    LET hour == hours[i]
        s1 == AddTo(ZeroSlot, "2.4GHz", bandwidth_data["smartwatch"][i])
        phone_bw == bandwidth_data["smartphone"][i]
        s2 == IF phone_bw > 800 THEN AddTo(s1, "6GHz", phone_bw)
              ELSE AddTo(s1, "5GHz", phone_bw)
        laptop_bw == bandwidth_data["laptop"][i]
        s3 == IF laptop_bw > 1500 THEN AddTo(s2, "6GHz", laptop_bw)
              ELSE IF laptop_bw > 500 THEN AddTo(s2, "5GHz", laptop_bw)
              ELSE AddTo(s2, "2.4GHz", laptop_bw)
        tablet_bw == bandwidth_data["tablet"][i]
        s4 == IF tablet_bw > 300 THEN AddTo(s3, "5GHz", tablet_bw)
              ELSE AddTo(s3, "2.4GHz", tablet_bw)
        s5 == IF 150 <= hour /\ hour < 160 /\ phone_bw <= 800
              THEN AddTo(AddTo(s4, "5GHz", 0 - phone_bw), "2.4GHz", phone_bw)
              ELSE s4
    IN s5

v8_generate_wifi_band_data(bandwidth_data) ==
    LET per_slot == np_array([i \in SlotIdx |-> v8_wifi_slot(bandwidth_data, i)])
    IN [b \in Bands |-> np_array([i \in SlotIdx |-> per_slot[i][b]])]

(***************************************************************************)
(* v13                                                                     *)
(***************************************************************************)
v13_smartphone ==
    <<
       100, 50, 30, 20, 20, 30, 200, 300, 500, 400, 800, 1200,
       1000, 800, 500, 300, 200, 150, 100, 150, 200, 500, 1000, 800,
       1200, 1500, 800, 400, 300, 200, 300, 250, 200, 150, 300, 400,
       500, 800, 1000, 1200, 800, 600, 1000, 1200, 800, 1000, 800, 600 >>

v13_laptop ==
    <<
       2000, 1500, 50, 30, 30, 50, 100, 80, 100, 200, 300, 500,
       800, 1200, 1500, 800, 500, 400, 600, 1000, 800, 1200, 1000, 600,
       1200, 1000, 800, 1500, 1800, 1200, 800, 1000, 1200, 800, 500, 300,
       1500, 2000, 2500, 2200, 1800, 1200, 800, 1000, 1500, 2000, 2200, 2000 >>

v13_tablet ==
    <<
       100, 200, 150, 100, 50, 50, 30, 20, 20, 30, 100, 200,
       300, 200, 100, 50, 30, 200, 300, 250, 200, 300, 200, 150,
       200, 300, 400, 300, 250, 200, 150, 100, 50, 30, 200, 400,
       300, 500, 800, 1000, 600, 400, 200, 300, 800, 1200, 1000, 800 >>

v13_smartwatch ==
    <<
       1, 1, 1, 1, 1, 1, 1, 1, 2, 5, 8, 10,
       15, 12, 50, 30, 10, 8, 10, 15, 10, 8, 6, 5,
       8, 10, 8, 6, 5, 10, 25, 30, 20, 15, 10, 8,
       10, 12, 15, 10, 8, 6, 5, 8, 10, 6, 4, 2 >>

v13_generate_bandwidth_data ==
    [ smartphone |-> v13_smartphone, laptop |-> v13_laptop,
      tablet |-> v13_tablet, smartwatch |-> v13_smartwatch ]

\* variant: the gym-time move of the smartphone is left out
v13_wifi_slot_no_gym_move(bandwidth_data, i) ==
    LET hour == hours[i]
        s1 == AddTo(ZeroSlot, "2.4GHz", bandwidth_data["smartwatch"][i])
        phone_bw == bandwidth_data["smartphone"][i]
        s2 == IF phone_bw > 800 THEN AddTo(s1, "6GHz", phone_bw)
              ELSE AddTo(s1, "5GHz", phone_bw)
        laptop_bw == bandwidth_data["laptop"][i]
        s3 == IF laptop_bw > 1500 THEN AddTo(s2, "6GHz", laptop_bw)
              ELSE IF laptop_bw > 500 THEN AddTo(s2, "5GHz", laptop_bw)
              ELSE AddTo(s2, "2.4GHz", laptop_bw)
        tablet_bw == bandwidth_data["tablet"][i]
        s4 == IF tablet_bw > 300 THEN AddTo(s3, "5GHz", tablet_bw)
              ELSE AddTo(s3, "2.4GHz", tablet_bw)
    IN s4

\* variant: the smartphone threshold is inclusive
v13_wifi_slot_inclusive(bandwidth_data, i) ==
    LET hour == hours[i]
        s1 == AddTo(ZeroSlot, "2.4GHz", bandwidth_data["smartwatch"][i])
        phone_bw == bandwidth_data["smartphone"][i]
        s2 == IF phone_bw >= 800 THEN AddTo(s1, "6GHz", phone_bw)
              ELSE AddTo(s1, "5GHz", phone_bw)
        laptop_bw == bandwidth_data["laptop"][i]
        s3 == IF laptop_bw > 1500 THEN AddTo(s2, "6GHz", laptop_bw)
              ELSE IF laptop_bw > 500 THEN AddTo(s2, "5GHz", laptop_bw)
              ELSE AddTo(s2, "2.4GHz", laptop_bw)
        tablet_bw == bandwidth_data["tablet"][i]
        s4 == IF tablet_bw > 300 THEN AddTo(s3, "5GHz", tablet_bw)
              ELSE AddTo(s3, "2.4GHz", tablet_bw)
        s5 == IF 150 <= hour /\ hour < 160 /\ phone_bw < 800
              THEN AddTo(AddTo(s4, "5GHz", 0 - phone_bw), "2.4GHz", phone_bw)
              ELSE s4
    IN s5

\* body of the loop "for i in range(48)" of _generate_wifi_band_data
v13_wifi_slot(bandwidth_data, i) ==
    LET hour == hours[i]
        s1 == AddTo(ZeroSlot, "2.4GHz", bandwidth_data["smartwatch"][i])
        phone_bw == bandwidth_data["smartphone"][i]
        s2 == IF phone_bw > 800 THEN AddTo(s1, "6GHz", phone_bw)
              ELSE AddTo(s1, "5GHz", phone_bw)
        laptop_bw == bandwidth_data["laptop"][i]
        s3 == IF laptop_bw > 1500 THEN AddTo(s2, "6GHz", laptop_bw)
              ELSE IF laptop_bw > 500 THEN AddTo(s2, "5GHz", laptop_bw)
              ELSE AddTo(s2, "2.4GHz", laptop_bw)
        tablet_bw == bandwidth_data["tablet"][i]
        s4 == IF tablet_bw > 300 THEN AddTo(s3, "5GHz", tablet_bw)
              ELSE AddTo(s3, "2.4GHz", tablet_bw)
        s5 == IF 150 <= hour /\ hour < 160 /\ phone_bw <= 800
              THEN AddTo(AddTo(s4, "5GHz", 0 - phone_bw), "2.4GHz", phone_bw)
              ELSE s4
    IN s5

v13_generate_wifi_band_data(bandwidth_data) ==
    LET per_slot == np_array([i \in SlotIdx |-> v13_wifi_slot(bandwidth_data, i)])
    IN [b \in Bands |-> np_array([i \in SlotIdx |-> per_slot[i][b]])]

(***************************************************************************)
(* v18                                                                     *)
(***************************************************************************)
base_patterns ==
    [ smartphone |-> <<
        100, 50, 30, 20, 20, 30, 200, 300, 500, 400, 800, 1200,
        1000, 800, 500, 300, 200, 150, 100, 150, 200, 500, 1000, 800,
        1200, 1500, 800, 400, 300, 200, 300, 250, 200, 150, 300, 400,
        500, 800, 1000, 1200, 800, 600, 1000, 1200, 800, 1000, 800, 600 >>,
      laptop |-> <<
        2000, 1500, 50, 30, 30, 50, 100, 80, 100, 200, 300, 500,
        800, 1200, 1500, 800, 500, 400, 600, 1000, 800, 1200, 1000, 600,
        1200, 1000, 800, 1500, 1800, 1200, 800, 1000, 1200, 800, 500, 300,
        1500, 2000, 2500, 2200, 1800, 1200, 800, 1000, 1500, 2000, 2200, 2000 >>,
      tablet |-> <<
        100, 200, 150, 100, 50, 50, 30, 20, 20, 30, 100, 200,
        300, 200, 100, 50, 30, 200, 300, 250, 200, 300, 200, 150,
        200, 300, 400, 300, 250, 200, 150, 100, 50, 30, 200, 400,
        300, 500, 800, 1000, 600, 400, 200, 300, 800, 1200, 1000, 800 >>,
      smartwatch |-> <<
        1, 1, 1, 1, 1, 1, 1, 1, 2, 5, 8, 10,
        15, 12, 50, 30, 10, 8, 10, 15, 10, 8, 6, 5,
        8, 10, 8, 6, 5, 10, 25, 30, 20, 15, 10, 8,
        10, 12, 15, 10, 8, 6, 5, 8, 10, 6, 4, 2 >> ]

v18_activities ==
    <<
       "Streaming Netflix 4K in bed",
       "Finishing movie, winding down",
       "Devices entering sleep mode",
       "Deep sleep mode",
       "Sleep tracking active",
       "Minimal network activity",
       "Deep sleep continues",
       "Background maintenance",
       "Continued backup sync",
       "Low activity period",
       "Pre-wake prep",
       "System wake routines",
       "ALARM! First phone check",
       "Getting ready routine",
       "Breakfast time",
       "Pre-class prep",
       "Reviewing notes",
       "Walking to class",
       "First lecture starts",
       "Lecture continues",
       "Class wrapping up",
       "BREAK - Coffee & social media",
       "Second class - Discussion",
       "Active participation",
       "Lunch at dining hall",
       "Lunch continues",
       "Library study begins",
       "Deep research mode",
       "Writing research paper",
       "Continued writing",
       "Gym time!",
       "Workout continues",
       "Post-gym, heading back",
       "Quick shower",
       "Homework starts",
       "Intensive project work",
       "Homework continues",
       "Dinner time!",
       "Dinner entertainment",
       "Study group video call",
       "Video call continues",
       "Call wrapping up",
       "Social/Gaming hour",
       "Continued gaming/social",
       "Evening wind-down",
       "Binge watching",
       "Pre-sleep routine",
       "Getting ready for bed" >>

\* self.device_config as built by __init__ (columns used by the generators)
DefaultDeviceConfig ==
    << [device |-> "laptop", wifi_capability |-> "WiFi 6E",
        max_bandwidth_mbps |-> 10000, typical_usage_mbps |-> 1500,
        preferred_band |-> "6GHz", device_count |-> 1, enabled |-> TRUE],
       [device |-> "smartphone", wifi_capability |-> "WiFi 6E",
        max_bandwidth_mbps |-> 5000, typical_usage_mbps |-> 800,
        preferred_band |-> "5GHz", device_count |-> 1, enabled |-> TRUE],
       [device |-> "tablet", wifi_capability |-> "WiFi 6",
        max_bandwidth_mbps |-> 4000, typical_usage_mbps |-> 500,
        preferred_band |-> "5GHz", device_count |-> 1, enabled |-> TRUE],
       [device |-> "smartwatch", wifi_capability |-> "WiFi 4",
        max_bandwidth_mbps |-> 500, typical_usage_mbps |-> 20,
        preferred_band |-> "2.4GHz", device_count |-> 1, enabled |-> TRUE] >>

\* the columns of self.usage_params that name a device (lines 37-47);
\* multipliers in tenths
Devices == {"laptop", "smartphone", "tablet", "smartwatch"}

DefaultUsageParams ==
    << [time_slot |-> <<0, 6>>, period_name |-> "Sleep",
        multiplier |-> [laptop |-> 1, smartphone |-> 2, tablet |-> 5,
                        smartwatch |-> 1],
        concurrent_usage_factor |-> 3],
       [time_slot |-> <<6, 9>>, period_name |-> "Morning Routine",
        multiplier |-> [laptop |-> 8, smartphone |-> 10, tablet |-> 6,
                        smartwatch |-> 15],
        concurrent_usage_factor |-> 7],
       [time_slot |-> <<9, 12>>, period_name |-> "Classes",
        multiplier |-> [laptop |-> 9, smartphone |-> 8, tablet |-> 8,
                        smartwatch |-> 8],
        concurrent_usage_factor |-> 6],
       [time_slot |-> <<12, 15>>, period_name |-> "Lunch/Study",
        multiplier |-> [laptop |-> 12, smartphone |-> 15, tablet |-> 10,
                        smartwatch |-> 6],
        concurrent_usage_factor |-> 8],
       [time_slot |-> <<15, 18>>, period_name |-> "Afternoon Activities",
        multiplier |-> [laptop |-> 6, smartphone |-> 6, tablet |-> 5,
                        smartwatch |-> 20],
        concurrent_usage_factor |-> 5],
       [time_slot |-> <<18, 22>>, period_name |-> "Evening Prime Time",
        multiplier |-> [laptop |-> 15, smartphone |-> 12, tablet |-> 15,
                        smartwatch |-> 8],
        concurrent_usage_factor |-> 10],
       [time_slot |-> <<22, 24>>, period_name |-> "Wind Down",
        multiplier |-> [laptop |-> 13, smartphone |-> 10, tablet |-> 12,
                        smartwatch |-> 5],
        concurrent_usage_factor |-> 8] >>

\* value of the local device_name before its first assignment
Unbound == "<unbound>"

\* one row of "for _, device in self.device_config.iterrows()" (lines 106-117)
RECURSIVE bandwidth_rows(_, _, _, _)
bandwidth_rows(device_config, k, data, device_name) ==
    IF k > Len(device_config)
    THEN [ok |-> TRUE, error |-> "none", data |-> data]
    ELSE LET device == device_config[k] IN
         IF device.enabled
         THEN LET name == device.device
                  base_pattern ==
                      IF name \in DOMAIN base_patterns
                      THEN base_patterns[name]
                      ELSE np_array([i \in SlotIdx |-> device.typical_usage_mbps])
                  scaled_pattern ==
                      np_array([i \in SlotIdx |-> base_pattern[i] * device.device_count])
                  clipped ==
                      np_array([i \in SlotIdx |->
                          np_clip(scaled_pattern[i], 0, device.max_bandwidth_mbps)])
              IN bandwidth_rows(device_config, k + 1, Put(data, name, clipped), name)
         ELSE IF device_name = Unbound
              THEN [ok |-> FALSE, error |-> "UnboundLocalError", data |-> data]
              ELSE bandwidth_rows(device_config, k + 1,
                                  Put(data, device_name, np_zeros), device_name)

v18_generate_bandwidth_data(device_config) ==
    bandwidth_rows(device_config, 1, EmptyDict, Unbound)

\* variant: a 5GHz device above 8 Mbps is promoted to 6GHz
v18_allocate_promoting(slot, device, bw) ==
    IF device.preferred_band = "6GHz" /\ device.wifi_capability = "WiFi 6E"
    THEN IF bw > 1500 THEN AddTo(slot, "6GHz", bw)
         ELSE IF bw > 500 THEN AddTo(slot, "5GHz", bw)
         ELSE AddTo(slot, "2.4GHz", bw)
    ELSE IF device.preferred_band = "5GHz" \/ device.preferred_band = "6GHz"
         THEN IF bw > 800 THEN AddTo(slot, "6GHz", bw)
              ELSE IF bw > 300 THEN AddTo(slot, "5GHz", bw)
              ELSE AddTo(slot, "2.4GHz", bw)
         ELSE AddTo(slot, "2.4GHz", bw)

\* variant: the low-usage branch of a 5GHz device forgets its += 
v18_allocate_dropping(slot, device, bw) ==
    IF device.preferred_band = "6GHz" /\ device.wifi_capability = "WiFi 6E"
    THEN IF bw > 1500 THEN AddTo(slot, "6GHz", bw)
         ELSE IF bw > 500 THEN AddTo(slot, "5GHz", bw)
         ELSE AddTo(slot, "2.4GHz", bw)
    ELSE IF device.preferred_band = "5GHz" \/ device.preferred_band = "6GHz"
         THEN IF bw > 300 THEN AddTo(slot, "5GHz", bw)
              ELSE slot
         ELSE AddTo(slot, "2.4GHz", bw)

\* variant: the 6GHz threshold is 20 Mbps
v18_allocate_threshold20(slot, device, bw) ==
    IF device.preferred_band = "6GHz" /\ device.wifi_capability = "WiFi 6E"
    THEN IF bw > 2000 THEN AddTo(slot, "6GHz", bw)
         ELSE IF bw > 500 THEN AddTo(slot, "5GHz", bw)
         ELSE AddTo(slot, "2.4GHz", bw)
    ELSE IF device.preferred_band = "5GHz" \/ device.preferred_band = "6GHz"
         THEN IF bw > 300 THEN AddTo(slot, "5GHz", bw)
              ELSE AddTo(slot, "2.4GHz", bw)
         ELSE AddTo(slot, "2.4GHz", bw)

\* the if/elif/else of lines 139-152 for one device in one slot
v18_allocate(slot, device, bw) ==
    IF device.preferred_band = "6GHz" /\ device.wifi_capability = "WiFi 6E"
    THEN IF bw > 1500 THEN AddTo(slot, "6GHz", bw)
         ELSE IF bw > 500 THEN AddTo(slot, "5GHz", bw)
         ELSE AddTo(slot, "2.4GHz", bw)
    ELSE IF device.preferred_band = "5GHz" \/ device.preferred_band = "6GHz"
         THEN IF bw > 300 THEN AddTo(slot, "5GHz", bw)
              ELSE AddTo(slot, "2.4GHz", bw)
         ELSE AddTo(slot, "2.4GHz", bw)

\* inner loop over the rows of device_config for slot i (lines 130-152)
RECURSIVE wifi_rows(_, _, _, _, _)
wifi_rows(device_config, bandwidth_data, i, k, slot) ==
    IF k > Len(device_config)
    THEN [ok |-> TRUE, error |-> "none", slot |-> slot]
    ELSE LET device == device_config[k] IN
         IF ~device.enabled
         THEN wifi_rows(device_config, bandwidth_data, i, k + 1, slot)
         ELSE IF device.device \notin DOMAIN bandwidth_data
              THEN [ok |-> FALSE, error |-> "KeyError", slot |-> slot]
              ELSE wifi_rows(device_config, bandwidth_data, i, k + 1,
                             v18_allocate(slot, device,
                                          bandwidth_data[device.device][i]))

v18_generate_wifi_band_data(device_config, bandwidth_data) ==
    LET per_slot == np_array([i \in SlotIdx |->
                        wifi_rows(device_config, bandwidth_data, i, 1, ZeroSlot)])
    IN IF \E i \in SlotIdx : ~per_slot[i].ok
       THEN [ok |-> FALSE, error |-> "KeyError",
             data |-> [b \in Bands |-> np_zeros]]
       ELSE [ok |-> TRUE, error |-> "none",
             data |-> [b \in Bands |->
                         np_array([i \in SlotIdx |-> per_slot[i].slot[b]])]]

\* variant: the fraction of the hour is not scaled to minutes
time_label_unscaled(h) == << h \div 10, h % 10 >>

\* f"{int(h):02d}:{int((h % 1) * 60):02d}" as <<hh, mm>>
time_label(h) == << h \div 10, ((h % 10) * 60) \div 10 >>

\* self.bandwidth_data.get(device, np.zeros(48))
dict_get(d, k, default) == IF k \in DOMAIN d THEN d[k] ELSE default

TimeseriesDevices == <<"laptop", "smartphone", "tablet", "smartwatch">>

v18_create_timeseries_dataframe(bandwidth_data, wifi_band_data, activities) ==
    LET dev == [n \in {TimeseriesDevices[j] : j \in 1..4} |->
                   dict_get(bandwidth_data, n, np_zeros)]
    IN [ time |-> np_array([i \in SlotIdx |-> time_label(hours[i])]),
         hour_decimal |-> hours,
         device_mbps |-> dev,
         band |-> [b \in Bands |-> wifi_band_data[b]],
         total_mbps |-> np_array([i \in SlotIdx |->
             dev["laptop"][i] + dev["smartphone"][i]
               + dev["tablet"][i] + dev["smartwatch"][i]]),
         total_band_mbps |-> np_array([i \in SlotIdx |->
             wifi_band_data["2.4GHz"][i] + wifi_band_data["5GHz"][i]
               + wifi_band_data["6GHz"][i]]),
         activity |-> activities ]

(***************************************************************************)
(* get_statistics.  np.mean is the fraction sum/len; percentage_of_total   *)
(* is the fraction 100*sum(data)/sum(total).  The baseline has no          *)
(* wifi_band_usage entry (wifi_band_data is the empty dict there).         *)
(***************************************************************************)
\* variant: the share is not multiplied by 100
series_stats_fraction(data, total) ==
    [ average_mbps |-> np_mean(data),
      peak_mbps |-> np_max(data),
      percentage_of_total |-> [num |-> np_sum(data), den |-> np_sum(total)] ]

series_stats(data, total) ==
    [ average_mbps |-> np_mean(data),
      peak_mbps |-> np_max(data),
      percentage_of_total |-> [num |-> np_sum(data) * 100, den |-> np_sum(total)] ]

get_statistics(bandwidth_data, wifi_band_data) ==
    LET total == get_total_bandwidth(bandwidth_data)
    IN [ computed |-> TRUE,
         peak_bandwidth |-> np_max(total),
         peak_time |-> hours[np_argmax(total) + 1],
         average_bandwidth |-> np_mean(total),
         device_contributions |->
             [d \in DOMAIN bandwidth_data |-> series_stats(bandwidth_data[d], total)],
         wifi_band_usage |->
             [b \in DOMAIN wifi_band_data |-> series_stats(wifi_band_data[b], total)] ]

NoStats ==
    [ computed |-> FALSE, peak_bandwidth |-> 0, peak_time |-> 0,
      average_bandwidth |-> [num |-> 0, den |-> 1],
      device_contributions |-> EmptyDict, wifi_band_usage |-> EmptyDict ]

(***************************************************************************)
(* Console input.  A line typed by the user is a sequence of characters.   *)
(* int() accepts an optional sign followed by digits; float() an optional  *)
(* sign, digits and at most one decimal point (lines with more than two    *)
(* fractional digits are outside the input sets below); str() returns the  *)
(* line itself.  Floats are returned in hundredths.                        *)
(***************************************************************************)
DigitChars == <<"0", "1", "2", "3", "4", "5", "6", "7", "8", "9">>

IsDigit(c) == \E d \in 1..10 : DigitChars[d] = c

DigitValue(c) == (CHOOSE d \in 1..10 : DigitChars[d] = c) - 1

IsDigits(s) == Len(s) > 0 /\ \A j \in 1..Len(s) : IsDigit(s[j])

RECURSIVE DigitsToNat(_)
DigitsToNat(s) ==
    IF s = <<>> THEN 0
    ELSE DigitsToNat(SubSeq(s, 1, Len(s) - 1)) * 10 + DigitValue(s[Len(s)])

HasSign(text) == Len(text) > 0 /\ (text[1] = "-" \/ text[1] = "+")

Unsigned(text) == IF HasSign(text) THEN Tail(text) ELSE text

SignOf(text) == IF Len(text) > 0 /\ text[1] = "-" THEN 0 - 1 ELSE 1

\* int(user_input)
int_of(text) ==
    IF IsDigits(Unsigned(text))
    THEN [ok |-> TRUE, exc |-> "none",
          value |-> SignOf(text) * DigitsToNat(Unsigned(text))]
    ELSE [ok |-> FALSE, exc |-> "ValueError", value |-> 0]

DotPositions(s) == {j \in 1..Len(s) : s[j] = "."}

\* float(user_input), in hundredths
float_of(text) ==
    LET body == Unsigned(text)
        dots == DotPositions(body)
        p    == IF dots = {} THEN Len(body) + 1 ELSE CHOOSE j \in dots : TRUE
        ip   == SubSeq(body, 1, p - 1)
        fp   == SubSeq(body, p + 1, Len(body))
        wellformed ==
            /\ Cardinality(dots) <= 1
            /\ Len(ip) + Len(fp) > 0
            /\ \A j \in 1..Len(ip) : IsDigit(ip[j])
            /\ \A j \in 1..Len(fp) : IsDigit(fp[j])
        frac == IF Len(fp) = 0 THEN 0
                ELSE IF Len(fp) = 1 THEN DigitsToNat(fp) * 10
                ELSE DigitsToNat(SubSeq(fp, 1, 2))
    IN IF wellformed
       THEN [ok |-> TRUE, exc |-> "none",
             value |-> SignOf(text) * (DigitsToNat(ip) * 100 + frac)]
       ELSE [ok |-> FALSE, exc |-> "ValueError", value |-> 0]

\* str(user_input)
str_of(text) == [ok |-> TRUE, exc |-> "none", value |-> text]

convert(input_type, text) ==
    IF input_type = "int" THEN int_of(text)
    ELSE IF input_type = "float" THEN float_of(text)
    ELSE str_of(text)

NoDefault == [given |-> FALSE, value |-> 0]

Default(v) == [given |-> TRUE, value |-> v]

\* variant: ValueError falls back to the default when there is one
get_user_input_step_fallback(user_input, input_type, default) ==
    IF user_input = <<>> /\ default.given
    THEN [outcome |-> "return", value |-> default.value]
    ELSE LET c == convert(input_type, user_input) IN
         IF c.ok THEN [outcome |-> "return", value |-> c.value]
         ELSE IF default.given THEN [outcome |-> "return", value |-> default.value]
         ELSE [outcome |-> "retry", value |-> 0]

\* one pass through the body of "while True" in get_user_input: the value is
\* returned, ValueError is caught and the prompt repeated, anything else
\* propagates to the caller
get_user_input_step(user_input, input_type, default) ==
    IF user_input = <<>> /\ default.given
    THEN [outcome |-> "return", value |-> default.value]
    ELSE LET c == convert(input_type, user_input) IN
         IF c.ok THEN [outcome |-> "return", value |-> c.value]
         ELSE IF c.exc = "ValueError" THEN [outcome |-> "retry", value |-> 0]
         ELSE [outcome |-> "raise", value |-> 0]

(***************************************************************************)
(* Files the import menus can name.  A CSV is its rows; read_csv of a      *)
(* name that is not in the directory raises FileNotFoundError.             *)
(***************************************************************************)
console_csv ==
    <<"c", "o", "n", "s", "o", "l", "e", ".", "c", "s", "v">>

dup_csv ==
    <<"d", "u", "p", ".", "c", "s", "v">>

missing_csv ==
    <<"m", "i", "s", "s", "i", "n", "g", ".", "c", "s", "v">>

scenario_night_csv ==
    <<"s", "c", "e", "n", "a", "r", "i", "o", "_", "n", "i", "g", "h", "t", "_", "1", "_", "d", "e", "v", "i", "c", "e", "s", ".", "c", "s", "v">>

scenario_dorm_csv ==
    <<"s", "c", "e", "n", "a", "r", "i", "o", "_", "d", "o", "r", "m", "_", "1", "_", "d", "e", "v", "i", "c", "e", "s", ".", "c", "s", "v">>

console_rows ==
    DefaultDeviceConfig \o
    << [device |-> "console", wifi_capability |-> "WiFi 6E",
        max_bandwidth_mbps |-> 8000, typical_usage_mbps |-> 1200,
        preferred_band |-> "6GHz", device_count |-> 1, enabled |-> TRUE] >>

dup_rows ==
    << DefaultDeviceConfig[1],
       [device |-> "laptop", wifi_capability |-> "WiFi 6",
        max_bandwidth_mbps |-> 4000, typical_usage_mbps |-> 500,
        preferred_band |-> "5GHz", device_count |-> 1, enabled |-> TRUE],
       DefaultDeviceConfig[2] >>

scenario_night_rows ==
    [DefaultDeviceConfig EXCEPT ![1].enabled = FALSE]

scenario_dorm_rows ==
    [DefaultDeviceConfig EXCEPT ![3].device_count = 3, ![4].enabled = FALSE]

Directory == {console_csv, dup_csv, scenario_night_csv, scenario_dorm_csv}

read_csv(filename) ==
    IF filename = console_csv THEN console_rows
    ELSE IF filename = dup_csv THEN dup_rows
    ELSE IF filename = scenario_night_csv THEN scenario_night_rows
    ELSE scenario_dorm_rows

\* sorted(glob.glob("scenario_*_devices.csv"), reverse=True)
device_files == << scenario_night_csv, scenario_dorm_csv >>

usage_csv ==
    <<"u", "s", "a", "g", "e", ".", "c", "s", "v">>

devices_suffix ==
    <<"_", "d", "e", "v", "i", "c", "e", "s", ".", "c", "s", "v">>

usage_suffix ==
    <<"_", "u", "s", "a", "g", "e", ".", "c", "s", "v">>

\* f'{base_name}_usage.csv' with base_name = selected_file.replace('_devices.csv', '')
scenario_usage_file(selected_file) ==
    SubSeq(selected_file, 1, Len(selected_file) - Len(devices_suffix))
        \o usage_suffix

\* usage.csv: the laptop's evening multiplier raised from 1.5 to 3.0
usage_rows ==
    [DefaultUsageParams EXCEPT ![6].multiplier.laptop = 30]

\* the usage file saved with the dorm scenario: the tablet's multiplier for
\* the class hours raised from 0.8 to 2.0; the night scenario has none
scenario_dorm_usage_rows ==
    [DefaultUsageParams EXCEPT ![3].multiplier.tablet = 20]

UsageDirectory == {usage_csv, scenario_usage_file(scenario_dorm_csv)}

read_usage_csv(filename) ==
    IF filename = usage_csv THEN usage_rows ELSE scenario_dorm_usage_rows

(***************************************************************************)
(* State                                                                   *)
(***************************************************************************)
\* menu operations applied in one session
MaxOps == 2

VARIABLES
    version,         \* which of the four scripts is running
    status,          \* "ok", or the exception that ended __init__
    device_config,   \* v18: rows of self.device_config
    usage_params,    \* v18: rows of self.usage_params
    bandwidth_data,  \* self.bandwidth_data: device name -> 48 values
    wifi_band_data,  \* self.wifi_band_data: band -> 48 values
    activities,      \* v18: self.activities
    timeseries_df,   \* v18: self.timeseries_df
    stats,           \* value returned by get_statistics in the running handler
    error,           \* exception reported by the v18 main loop, or "none"
    n_ops,           \* menu operations applied so far
    config_file,     \* v18: the argument of __init__ (<<>> for None)
    major_peaks,     \* baseline: slots starred by plot_interactive
    last_op,         \* history: the menu operation applied last
    all_distinct,    \* history: no device_config so far repeated a device name
    gui              \* a call of get_user_input in progress

vars == << version, status, device_config, usage_params, bandwidth_data, wifi_band_data,
           activities, timeseries_df, stats, error, n_ops,
           config_file, major_peaks, last_op, all_distinct, gui >>

model_vars == << version, status, device_config, usage_params, bandwidth_data, wifi_band_data,
                 activities, timeseries_df, stats, error, n_ops,
                 config_file, major_peaks, last_op, all_distinct >>

StaticVersions == {"baseline", "v8", "v13"}

NoDf ==
    [ time |-> <<>>, hour_decimal |-> <<>>, device_mbps |-> EmptyDict,
      band |-> EmptyDict, total_mbps |-> <<>>, total_band_mbps |-> <<>>,
      activity |-> <<>> ]

GuiIdle ==
    [ pc |-> "idle", input_type |-> "str", default |-> NoDefault,
      user_input |-> <<>>, value |-> 0, rejected |-> FALSE ]

DistinctNames(cfg) ==
    \A j, k \in 1..Len(cfg) : cfg[j].device = cfg[k].device => j = k

\* sorted(indices, key=lambda i: total[i], reverse=True): descending by
\* key, equal keys in their original order
RECURSIVE insert_desc(_, _, _)
insert_desc(sorted, x, total) ==
    IF sorted = <<>> THEN <<x>>
    ELSE IF total[Head(sorted) + 1] >= total[x + 1]
         THEN <<Head(sorted)>> \o insert_desc(Tail(sorted), x, total)
         ELSE <<x>> \o sorted

RECURSIVE sorted_reverse(_, _)
sorted_reverse(indices, total) ==
    IF indices = <<>> THEN <<>>
    ELSE insert_desc(sorted_reverse(SubSeq(indices, 1, Len(indices) - 1), total),
                     indices[Len(indices)], total)

\* the three assignments "Regenerate data" (import_device_config,
\* modify_device_menu and enable_disable_device_menu share them verbatim);
\* an exception leaves the attributes not yet assigned as they were
regenerate(cfg, old_bandwidth, old_wifi, old_df, acts) ==
    LET g == v18_generate_bandwidth_data(cfg) IN
    IF ~g.ok
    THEN [error |-> g.error, bandwidth_data |-> old_bandwidth,
          wifi_band_data |-> old_wifi, timeseries_df |-> old_df]
    ELSE LET w == v18_generate_wifi_band_data(cfg, g.data) IN
         IF ~w.ok
         THEN [error |-> w.error, bandwidth_data |-> g.data,
               wifi_band_data |-> old_wifi, timeseries_df |-> old_df]
         ELSE [error |-> "none", bandwidth_data |-> g.data,
               wifi_band_data |-> w.data,
               timeseries_df |->
                   v18_create_timeseries_dataframe(g.data, w.data, acts)]

\* __init__ of the baseline, v8 and v13 classes
InitStatic(v) ==
    /\ version = v
    /\ config_file = <<>>
    /\ status = "ok"
    /\ device_config = <<>>
    /\ usage_params = <<>>
    /\ bandwidth_data =
         IF v = "baseline" THEN baseline_generate_bandwidth_data
         ELSE IF v = "v8" THEN v8_generate_bandwidth_data
         ELSE v13_generate_bandwidth_data
    /\ wifi_band_data =
         IF v = "baseline" THEN EmptyDict
         ELSE IF v = "v8" THEN v8_generate_wifi_band_data(v8_generate_bandwidth_data)
         ELSE v13_generate_wifi_band_data(v13_generate_bandwidth_data)
    /\ activities = <<>>
    /\ timeseries_df = NoDf

\* v18 __init__(config_file): self.load_config is not defined anywhere in
\* the class, so a config_file that is not None ends in AttributeError
\* before any data attribute exists
v18_init(file) ==
    /\ version = "v18"
    /\ config_file = file
    /\ device_config = DefaultDeviceConfig
    /\ usage_params = DefaultUsageParams
    /\ IF file # <<>>
       THEN /\ status = "AttributeError"
            /\ bandwidth_data = EmptyDict
            /\ wifi_band_data = EmptyDict
            /\ activities = <<>>
            /\ timeseries_df = NoDf
       ELSE LET r == regenerate(DefaultDeviceConfig, EmptyDict, EmptyDict,
                                NoDf, v18_activities)
            IN /\ status = IF r.error = "none" THEN "ok" ELSE r.error
               /\ bandwidth_data = r.bandwidth_data
               /\ wifi_band_data = r.wifi_band_data
               /\ activities = v18_activities
               /\ timeseries_df = r.timeseries_df

\* config_file = None is the empty line here
ConfigFiles == {<<>>, console_csv}

Init ==
    /\ \/ \E v \in StaticVersions : InitStatic(v)
       \/ \E file \in ConfigFiles : v18_init(file)
    /\ stats = NoStats
    /\ major_peaks = <<>>
    /\ error = "none"
    /\ n_ops = 0
    /\ last_op = "none"
    /\ all_distinct = TRUE
    /\ gui = GuiIdle

Running == version = "v18" /\ status = "ok"

(***************************************************************************)
(* Operations                                                              *)
(***************************************************************************)
\* model.print_statistics(): __main__ of the baseline, v8, v13; menu
\* choices "1" and "2" of v18
print_statistics ==
    /\ status = "ok"
    /\ stats' = get_statistics(bandwidth_data, wifi_band_data)
    /\ error' = "none"
    /\ UNCHANGED << version, status, device_config, usage_params,
                    bandwidth_data, wifi_band_data, activities, timeseries_df,
                    n_ops, config_file, major_peaks, last_op, all_distinct, gui >>

\* the lines "Add peak markers" of plot_interactive (baseline lines 214-221):
\* the starred slots, as Python indices; __main__ calls it after
\* print_statistics
plot_interactive ==
    /\ version = "baseline"
    /\ status = "ok"
    /\ stats.computed
    /\ LET total == get_total_bandwidth(bandwidth_data)
           peak_indices ==
               [i \in 1..12 |->
                   np_argmax(SubSeq(total, (i - 1) * 2 + 1, i * 2)) + (i - 1) * 2]
       IN major_peaks' = SubSeq(sorted_reverse(peak_indices, total), 1, 3)
    /\ UNCHANGED << version, status, device_config, usage_params,
                    bandwidth_data, wifi_band_data, activities, timeseries_df,
                    stats, error, n_ops, config_file, last_op, all_distinct,
                    gui >>

DeviceNumLines ==
    { <<>>, <<"1">>, <<"2">>, <<"3">>, <<"4">>, <<"5">> }

\* menu choice "15"
enable_disable_device_menu(line) ==
    LET r == get_user_input_step(line, "int", Default(0))
        device_num == r.value
        device_idx == device_num - 1
        cfg == [device_config EXCEPT ![device_idx + 1].enabled = ~@]
    IN /\ Running
       /\ r.outcome = "return"
       /\ device_num >= 0
       /\ stats' = NoStats
       /\ IF device_num = 0 \/ device_num > Len(device_config)
          THEN /\ error' = "none"
               /\ UNCHANGED << device_config, bandwidth_data, wifi_band_data,
                               timeseries_df, n_ops, last_op, all_distinct >>
          ELSE /\ n_ops < MaxOps
               /\ n_ops' = n_ops + 1
               /\ last_op' = "enable_disable"
               /\ all_distinct' = (all_distinct /\ DistinctNames(cfg))
               /\ \E g \in {regenerate(cfg, bandwidth_data, wifi_band_data,
                                        timeseries_df, activities)} :
                      /\ device_config' = cfg
                      /\ bandwidth_data' = g.bandwidth_data
                      /\ wifi_band_data' = g.wifi_band_data
                      /\ timeseries_df' = g.timeseries_df
                      /\ error' = g.error
       /\ UNCHANGED << version, status, usage_params, activities, config_file, major_peaks,
                       gui >>

\* lines typed at the three prompts of modify_device_menu
ModifyLines ==
    { << <<"1", "0">>, <<>>, <<>> >>,
      << <<"-", "5">>, <<>>, <<>> >>,
      << <<>>, <<"2", ".", "5">>, <<>> >>,
      << <<>>, <<>>, <<"2">> >>,
      << <<>>, <<>>, <<"0">> >> }

\* menu choice "16"; lines are typed only when a device was selected
modify_device_menu(line) ==
    LET r == get_user_input_step(line, "int", Default(0))
        device_num == r.value
        device_idx == device_num - 1
        device == device_config[device_idx + 1]
    IN /\ Running
       /\ r.outcome = "return"
       /\ device_num >= 0
       /\ stats' = NoStats
       /\ IF device_num = 0 \/ device_num > Len(device_config)
          THEN /\ error' = "none"
               /\ UNCHANGED << device_config, bandwidth_data, wifi_band_data,
                               timeseries_df, n_ops, last_op, all_distinct >>
          ELSE /\ n_ops < MaxOps
               /\ n_ops' = n_ops + 1
               /\ last_op' = "modify"
               /\ UNCHANGED all_distinct
               /\ \E lines \in ModifyLines :
                  LET m == get_user_input_step(lines[1], "float",
                                               Default(device.max_bandwidth_mbps))
                      t == get_user_input_step(lines[2], "float",
                                               Default(device.typical_usage_mbps))
                      c == get_user_input_step(lines[3], "int",
                                               Default(device.device_count))
                      cfg == [device_config EXCEPT
                                ![device_idx + 1].max_bandwidth_mbps = m.value,
                                ![device_idx + 1].typical_usage_mbps = t.value,
                                ![device_idx + 1].device_count = c.value]
                  IN /\ m.outcome = "return"
                     /\ t.outcome = "return"
                     /\ c.outcome = "return"
                     /\ \E g \in {regenerate(cfg, bandwidth_data, wifi_band_data,
                                              timeseries_df, activities)} :
                            /\ device_config' = cfg
                            /\ bandwidth_data' = g.bandwidth_data
                            /\ wifi_band_data' = g.wifi_band_data
                            /\ timeseries_df' = g.timeseries_df
                            /\ error' = g.error
       /\ UNCHANGED << version, status, usage_params, activities, config_file, major_peaks,
                       gui >>

\* model.import_device_config(filename); raised is the exception name
import_result(filename) ==
    IF filename \notin Directory
    THEN [error |-> "FileNotFoundError", device_config |-> device_config,
          bandwidth_data |-> bandwidth_data, wifi_band_data |-> wifi_band_data,
          timeseries_df |-> timeseries_df]
    ELSE LET cfg == read_csv(filename)
             g == regenerate(cfg, bandwidth_data, wifi_band_data, timeseries_df,
                             activities)
         IN [error |-> g.error, device_config |-> cfg,
             bandwidth_data |-> g.bandwidth_data,
             wifi_band_data |-> g.wifi_band_data,
             timeseries_df |-> g.timeseries_df]

\* model.import_usage_params(filename): the frame is replaced and nothing
\* is regenerated (lines 260-263)
import_usage_params(filename) ==
    IF filename \notin UsageDirectory
    THEN [error |-> "FileNotFoundError", usage_params |-> usage_params]
    ELSE [error |-> "none", usage_params |-> read_usage_csv(filename)]

ImportLines == {<<>>, console_csv, dup_csv, missing_csv, scenario_night_csv}

\* menu choice "11"
import_device_config_choice(line) ==
    LET r == get_user_input_step(line, "str", NoDefault)
        filename == r.value
    IN /\ Running
       /\ r.outcome = "return"
       /\ stats' = NoStats
       /\ IF filename = <<>>
          THEN /\ error' = "none"
               /\ UNCHANGED << device_config, bandwidth_data, wifi_band_data,
                               timeseries_df, n_ops, last_op, all_distinct >>
          ELSE /\ n_ops < MaxOps
               /\ n_ops' = n_ops + 1
               /\ last_op' = "import"
               /\ \E res \in {import_result(filename)} :
                      /\ all_distinct' =
                            (all_distinct /\ DistinctNames(res.device_config))
                      /\ device_config' = res.device_config
                      /\ bandwidth_data' = res.bandwidth_data
                      /\ wifi_band_data' = res.wifi_band_data
                      /\ timeseries_df' = res.timeseries_df
                      /\ error' = res.error
       /\ UNCHANGED << version, status, usage_params, activities, config_file, major_peaks,
                       gui >>

ScenarioLines == { <<>>, <<"1">>, <<"2">>, <<"3">>, <<"-", "1">>, <<"-", "5">> }

\* menu choice "18": device_files[file_num - 1], a negative index counting
\* from the end of the list; the handler catches what the import raises
load_scenario_menu(line) ==
    LET r == get_user_input_step(line, "int", Default(0))
        file_num == r.value
        py_idx == file_num - 1
        pos == IF py_idx >= 0 THEN py_idx + 1 ELSE Len(device_files) + py_idx + 1
    IN /\ Running
       /\ r.outcome = "return"
       /\ stats' = NoStats
       /\ IF file_num = 0 \/ file_num > Len(device_files)
          THEN /\ error' = "none"
               /\ UNCHANGED << device_config, usage_params, bandwidth_data,
                               wifi_band_data, timeseries_df, n_ops, last_op,
                               all_distinct >>
          ELSE IF pos \notin 1..Len(device_files)
          THEN /\ n_ops < MaxOps
               /\ n_ops' = n_ops + 1
               /\ error' = "IndexError"
               /\ last_op' = "load_scenario"
               /\ UNCHANGED << device_config, usage_params, bandwidth_data,
                               wifi_band_data, timeseries_df, all_distinct >>
          ELSE /\ n_ops < MaxOps
               /\ n_ops' = n_ops + 1
               /\ last_op' = "load_scenario"
               /\ \E res \in {import_result(device_files[pos])} :
                      /\ all_distinct' =
                            (all_distinct /\ DistinctNames(res.device_config))
                      /\ device_config' = res.device_config
                      /\ bandwidth_data' = res.bandwidth_data
                      /\ wifi_band_data' = res.wifi_band_data
                      /\ timeseries_df' = res.timeseries_df
                      /\ usage_params' =
                            IF res.error = "none"
                            THEN import_usage_params(
                                     scenario_usage_file(device_files[pos])).usage_params
                            ELSE usage_params
                      /\ error' = "none"
       /\ UNCHANGED << version, status, activities, config_file, major_peaks, gui >>

UsageLines == {<<>>, usage_csv, missing_csv}

\* menu choice "12"
import_usage_params_choice(line) ==
    LET r == get_user_input_step(line, "str", NoDefault)
        filename == r.value
    IN /\ Running
       /\ r.outcome = "return"
       /\ stats' = NoStats
       /\ IF filename = <<>>
          THEN /\ error' = "none"
               /\ UNCHANGED << usage_params, n_ops, last_op >>
          ELSE /\ n_ops < MaxOps
               /\ n_ops' = n_ops + 1
               /\ last_op' = "import_usage"
               /\ \E res \in {import_usage_params(filename)} :
                      /\ usage_params' = res.usage_params
                      /\ error' = res.error
       /\ UNCHANGED << version, status, device_config, bandwidth_data,
                       wifi_band_data, activities, timeseries_df, config_file, major_peaks,
                       all_distinct, gui >>

Next ==
    \/ print_statistics
    \/ plot_interactive
    \/ \E line \in DeviceNumLines : enable_disable_device_menu(line)
    \/ \E line \in DeviceNumLines : modify_device_menu(line)
    \/ \E line \in ImportLines : import_device_config_choice(line)
    \/ \E line \in ScenarioLines : load_scenario_menu(line)
    \/ \E line \in UsageLines : import_usage_params_choice(line)

Spec == Init /\ [][Next]_vars

(***************************************************************************)
(* get_user_input as a process of its own: the call, then one line per     *)
(* step until a line is accepted.                                          *)
(***************************************************************************)
GuiLines ==
    { <<>>, <<"0">>, <<"7">>, <<"1", "2">>, <<"-", "1">>, <<"+", "3">>,
      <<"2", ".", "5">>, <<"5", ".">>, <<".">>, <<"-">>, <<"1", ".", "2", ".", "3">>,
      <<"a", "b", "c">> }

get_user_input_call(input_type, default) ==
    /\ gui.pc \in {"idle", "returned"}
    /\ gui' = [pc |-> "prompt", input_type |-> input_type, default |-> default,
               user_input |-> <<>>, value |-> 0, rejected |-> FALSE]
    /\ UNCHANGED model_vars

get_user_input_line(line) ==
    /\ gui.pc = "prompt"
    /\ LET r == get_user_input_step(line, gui.input_type, gui.default)
       IN gui' = [gui EXCEPT
                    !.user_input = line,
                    !.value = r.value,
                    !.rejected = (@ \/ r.outcome = "retry"),
                    !.pc = IF r.outcome = "return" THEN "returned"
                           ELSE IF r.outcome = "retry" THEN "prompt"
                           ELSE "raised"]
    /\ UNCHANGED model_vars

GuiNext ==
    \/ \E d \in {NoDefault, Default(0), Default(3)} :
           get_user_input_call("int", d)
    \/ \E d \in {NoDefault, Default(10000)} : get_user_input_call("float", d)
    \/ get_user_input_call("str", NoDefault)
    \/ get_user_input_call("str", Default(<<"0">>))
    \/ \E line \in GuiLines : get_user_input_line(line)

SpecInput == Init /\ [][GuiNext]_vars


(***************************************************************************)
(* Properties                                                              *)
(***************************************************************************)
BandSum(wifi, i) == wifi["2.4GHz"][i] + wifi["5GHz"][i] + wifi["6GHz"][i]

Balanced(bandwidth, wifi) ==
    \A i \in SlotIdx : BandSum(wifi, i) = get_total_bandwidth(bandwidth)[i]

\* C1: in v8, v13 and v18 the three band values of every slot add up to the
\* slot's total over all devices; in v18 for the default configuration and
\* after every menu operation, as long as no configuration held so far
\* repeated a device name.
C1_BandsAddUpToTotal ==
    /\ version \in {"v8", "v13"} => Balanced(bandwidth_data, wifi_band_data)
    /\ (Running /\ all_distinct) => Balanced(bandwidth_data, wifi_band_data)

\* a device was toggled and another modified, and the bands were regenerated
C1_Witness ==
    /\ Running /\ all_distinct /\ error = "none" /\ n_ops = 2
    /\ last_op = "modify"
    /\ \E k \in 1..Len(device_config) : ~device_config[k].enabled
    /\ \E i \in SlotIdx : wifi_band_data["6GHz"][i] > 0

\* the series of device name in a bandwidth_data dict, as the time-series
\* table reads it
SeriesOf(bandwidth, name) == dict_get(bandwidth, name, np_zeros)

\* C2: a step of the enable/disable menu that disables device k makes k's
\* series zero in all 48 slots, takes exactly k's previous bandwidth out of
\* the band sums, and leaves every other device's series as it was.
C2_DisableIsLocal ==
    [][ \A k \in 1..Len(device_config) :
          ( /\ Running
            /\ last_op' = "enable_disable"
            /\ n_ops' = n_ops + 1
            /\ device_config[k].enabled
            /\ device_config' = [device_config EXCEPT ![k].enabled = FALSE] )
          => /\ SeriesOf(bandwidth_data', device_config[k].device) = np_zeros
             /\ \A j \in 1..Len(device_config) :
                   j # k => SeriesOf(bandwidth_data', device_config[j].device)
                              = SeriesOf(bandwidth_data, device_config[j].device)
             /\ \A i \in SlotIdx :
                   BandSum(wifi_band_data', i) =
                     BandSum(wifi_band_data, i)
                       - SeriesOf(bandwidth_data, device_config[k].device)[i]
      ]_vars

SixGHzOnly(bw) == [b \in Bands |-> IF b = "6GHz" THEN bw ELSE 0]

Without(bandwidth, name) == [bandwidth EXCEPT ![name] = np_zeros]

\* what device name adds to the three bands of slot i in v8 / v13: the band
\* table minus the table generated with that device's series set to zero
StaticContribution(name, i) ==
    LET rest == IF version = "v8"
                THEN v8_generate_wifi_band_data(Without(bandwidth_data, name))
                ELSE v13_generate_wifi_band_data(Without(bandwidth_data, name))
    IN [b \in Bands |-> wifi_band_data[b][i] - rest[b][i]]

C3_StaticPart ==
    version \in {"v8", "v13"} =>
        \A name \in DOMAIN bandwidth_data : \A i \in SlotIdx :
            bandwidth_data[name][i] > 1500 =>
                StaticContribution(name, i) = SixGHzOnly(bandwidth_data[name][i])

\* the rows of device_config the v18 band generator allocates, with the
\* bandwidth it reads for them
Uses6GHzRule(device) ==
    device.preferred_band = "6GHz" /\ device.wifi_capability = "WiFi 6E"

\* C3 as stated: every device above 15 Mbps in a slot is on 6GHz only, in
\* v8, v13 and v18.
C3_Above15On6GHz_AllDevices ==
    /\ C3_StaticPart
    /\ Running =>
         \A k \in 1..Len(device_config) : \A i \in SlotIdx :
            LET device == device_config[k]
                bw == SeriesOf(bandwidth_data, device.device)[i]
            IN (device.enabled /\ bw > 1500) =>
                  v18_allocate(ZeroSlot, device, bw) = SixGHzOnly(bw)

\* C3 amended: in v8 and v13 every device above 15 Mbps in a slot is on 6GHz
\* only; in v18 this holds for the devices whose preferred band is 6GHz and
\* whose capability is WiFi 6E, whatever count and maximum the menu sets.
C3_Above15On6GHz ==
    /\ C3_StaticPart
    /\ Running =>
         \A k \in 1..Len(device_config) : \A i \in SlotIdx :
            LET device == device_config[k]
                bw == SeriesOf(bandwidth_data, device.device)[i]
            IN (device.enabled /\ Uses6GHzRule(device) /\ bw > 1500) =>
                  v18_allocate(ZeroSlot, device, bw) = SixGHzOnly(bw)

\* the laptop count was doubled by the menu and the laptop is above 15 Mbps
C3_Witness ==
    /\ Running /\ last_op = "modify" /\ error = "none"
    /\ device_config[1].device = "laptop" /\ device_config[1].device_count = 2
    /\ \E i \in SlotIdx :
          /\ bandwidth_data["laptop"][i] > 1500
          /\ wifi_band_data["6GHz"][i] >= bandwidth_data["laptop"][i]

V8Table == v8_generate_wifi_band_data(v8_generate_bandwidth_data)

V13Table == v13_generate_wifi_band_data(v13_generate_bandwidth_data)

\* C4 as stated: with the default configuration v8, v13 and v18 hold the
\* same band table.
C4_SameTable_AllVersions ==
    /\ version = "v8" => wifi_band_data = V13Table
    /\ version = "v13" => wifi_band_data = V8Table
    /\ (Running /\ device_config = DefaultDeviceConfig) =>
          wifi_band_data = V8Table

GymSlot(i) == 150 <= hours[i] /\ hours[i] < 160

\* slots in which the smartphone rule of v8/v13 and the 5GHz rule of v18
\* choose the same band
SamePhoneBand(i) ==
    LET p == v8_smartphone[i]
    IN \/ ~GymSlot(i) /\ 300 < p /\ p <= 800
       \/ GymSlot(i) /\ p <= 300

\* C4 amended: v8 and v13 hold the same band table; the default v18 table
\* has the same sum over the three bands in every slot, and the same value
\* in every band in the slots where the smartphone is above 3 and at most
\* 8 Mbps outside 15:00-16:00, or at most 3 Mbps inside it.
C4_SameTable ==
    /\ version = "v8" => wifi_band_data = V13Table
    /\ version = "v13" => wifi_band_data = V8Table
    /\ (Running /\ device_config = DefaultDeviceConfig) =>
          \A i \in SlotIdx :
             /\ BandSum(wifi_band_data, i) = BandSum(V8Table, i)
             /\ SamePhoneBand(i) =>
                   \A b \in Bands : wifi_band_data[b][i] = V8Table[b][i]

\* the default v18 table, with a slot of either kind
C4_Witness ==
    /\ Running /\ device_config = DefaultDeviceConfig
    /\ \E i, j \in SlotIdx :
          /\ SamePhoneBand(i) /\ wifi_band_data["5GHz"][i] > 0
          /\ ~SamePhoneBand(j) /\ wifi_band_data["6GHz"][j] # V8Table["6GHz"][j]

\* sum over the devices of their bandwidth in slot i
RECURSIVE SlotTotalOver(_, _, _)
SlotTotalOver(bandwidth, names, i) ==
    IF names = {} THEN 0
    ELSE LET n == CHOOSE x \in names : TRUE
         IN bandwidth[n][i] + SlotTotalOver(bandwidth, names \ {n}, i)

SlotTotal(i) == SlotTotalOver(bandwidth_data, DOMAIN bandwidth_data, i)

RECURSIVE TotalUpTo(_)
TotalUpTo(n) == IF n = 0 THEN 0 ELSE TotalUpTo(n - 1) + SlotTotal(n)

DayTotal == TotalUpTo(NumSlots)

\* C5: get_statistics reports the maximum slot total as peak_bandwidth, the
\* hour of the earliest slot attaining it as peak_time and the day total over
\* 48 as average_bandwidth; the peak is at least the average and at least
\* every slot total.
C5_PeakAndAverage ==
    stats.computed =>
        /\ \A i \in SlotIdx : stats.peak_bandwidth >= SlotTotal(i)
        /\ \E i \in SlotIdx :
              /\ SlotTotal(i) = stats.peak_bandwidth
              /\ stats.peak_time = 5 * (i - 1)
              /\ \A j \in 1..(i - 1) : SlotTotal(j) < stats.peak_bandwidth
        /\ stats.average_bandwidth = [num |-> DayTotal, den |-> 48]
        /\ stats.peak_bandwidth * stats.average_bandwidth.den
              >= stats.average_bandwidth.num

\* statistics printed in v18 after a device was modified
C5_Witness ==
    /\ stats.computed /\ Running /\ last_op = "modify"
    /\ stats.peak_bandwidth > 0
    /\ stats.peak_bandwidth * 48 > stats.average_bandwidth.num

RECURSIVE PctNumSum(_, _)
PctNumSum(entries, keys) ==
    IF keys = {} THEN 0
    ELSE LET k == CHOOSE x \in keys : TRUE
         IN entries[k].percentage_of_total.num + PctNumSum(entries, keys \ {k})

\* the percentages num/den of a table share the denominator DayTotal and
\* add up to 100
PctSumIs100(entries) ==
    /\ \A k \in DOMAIN entries : entries[k].percentage_of_total.den = DayTotal
    /\ PctNumSum(entries, DOMAIN entries) = 100 * DayTotal

C7_FortyEightSlots ==
    Running =>
        /\ \A n \in DOMAIN bandwidth_data : Len(bandwidth_data[n]) = 48
        /\ DOMAIN wifi_band_data = Bands
        /\ \A b \in Bands : Len(wifi_band_data[b]) = 48
        /\ Len(activities) = 48
        /\ Len(timeseries_df.time) = 48
        /\ Len(timeseries_df.hour_decimal) = 48
        /\ \A n \in DOMAIN timeseries_df.device_mbps :
              Len(timeseries_df.device_mbps[n]) = 48
        /\ \A b \in DOMAIN timeseries_df.band : Len(timeseries_df.band[b]) = 48
        /\ Len(timeseries_df.total_mbps) = 48
        /\ Len(timeseries_df.total_band_mbps) = 48
        /\ Len(timeseries_df.activity) = 48
        /\ \A i \in 1..48 :
              timeseries_df.time[i] = << (i - 1) \div 2, 30 * ((i - 1) % 2) >>

\* a five-device configuration was imported and a device then disabled
C7_Witness ==
    /\ Running /\ n_ops = 2 /\ error = "none"
    /\ Len(device_config) = 5 /\ "console" \in DOMAIN bandwidth_data
    /\ last_op = "enable_disable"

\* bandwidth_data, wifi_band_data and timeseries_df are what the generators
\* return for cfg
GeneratedFrom(cfg) ==
    LET g == v18_generate_bandwidth_data(cfg)
        w == v18_generate_wifi_band_data(cfg, g.data)
    IN /\ g.ok
       /\ bandwidth_data = g.data
       /\ w.ok
       /\ wifi_band_data = w.data
       /\ timeseries_df =
             v18_create_timeseries_dataframe(g.data, w.data, v18_activities)

\* C8: a v18 model constructed with a config_file completes construction
\* and holds the data generated from that file's configuration.
C8_ConfigFileLoaded ==
    (version = "v18" /\ config_file # <<>>) =>
        /\ status = "ok"
        /\ device_config = read_csv(config_file)
        /\ GeneratedFrom(device_config)

Acceptable(g, line) ==
    (line = <<>> /\ g.default.given) \/ convert(g.input_type, line).ok

\* C9: get_user_input never raises on the line typed; what it returns is the
\* default (empty line, default given) or the line converted to the
\* requested type; a line that converts, or an empty line with a default,
\* makes it return, and any other line makes it prompt again.
C9_InputReprompts ==
    /\ [](gui.pc # "raised")
    /\ [](gui.pc = "returned" =>
            IF gui.user_input = <<>> /\ gui.default.given
            THEN gui.value = gui.default.value
            ELSE /\ convert(gui.input_type, gui.user_input).ok
                 /\ gui.value = convert(gui.input_type, gui.user_input).value)
    /\ [][ (gui.pc = "prompt" /\ gui'.pc # "prompt") =>
              (gui'.pc = "returned" /\ Acceptable(gui, gui'.user_input)) ]_vars
    /\ [][ (gui.pc = "prompt" /\ gui'.pc = "prompt" /\ gui' # gui) =>
              ~Acceptable(gui, gui'.user_input) ]_vars

\* an int was returned after at least one line had been rejected
C9_Witness ==
    /\ gui.pc = "returned" /\ gui.rejected
    /\ gui.input_type = "int" /\ gui.user_input = <<"-", "1">>
    /\ gui.value = 0 - 1

\* C10: in every state of the running v18 program bandwidth_data,
\* wifi_band_data and timeseries_df are what the generators produce from
\* the current device_config.
C10_DerivedDataFresh ==
    Running => GeneratedFrom(device_config)

(***************************************************************************)
(* C11                                                                     *)
(***************************************************************************)
\* Python indices of the slots of period p of usage_params, as indices here
PeriodSlots(params, p) ==
    { i \in SlotIdx : /\ params[p].time_slot[1] * 10 <= hours[i]
                      /\ hours[i] < params[p].time_slot[2] * 10 }

MultiplierChanged(d, p) ==
    /\ Len(usage_params) = Len(usage_params')
    /\ p \in 1..Len(usage_params)
    /\ usage_params'[p].multiplier[d] # usage_params[p].multiplier[d]

\* C11: in v18, a step that changes the multiplier of an enabled device for
\* a period of usage_params changes that device's generated bandwidth in
\* that period (here in its weakest reading: in at least one slot of it)
C11_UsageParamsAffectBandwidth ==
    [][ \A d \in Devices : \A p \in 1..7 :
          ( /\ Running
            /\ MultiplierChanged(d, p)
            /\ \E k \in 1..Len(device_config') :
                   device_config'[k].device = d /\ device_config'[k].enabled
            /\ d \in DOMAIN bandwidth_data /\ d \in DOMAIN bandwidth_data' )
          => \E i \in PeriodSlots(usage_params', p) :
                 bandwidth_data'[d][i] # bandwidth_data[d][i] ]_vars

(***************************************************************************)
(* C12                                                                     *)
(***************************************************************************)
AllEnabled(cfg) == \A k \in 1..Len(cfg) : cfg[k].enabled

\* min(base_pattern[i] * device_count, max_bandwidth_mbps), not below 0
BoundedUsage(device, i) ==
    LET base == IF device.device \in DOMAIN base_patterns
                THEN base_patterns[device.device][i]
                ELSE device.typical_usage_mbps
    IN Max2(0, Min2(base * device.device_count, device.max_bandwidth_mbps))

\* C12: in v18, for every enabled device and every slot the generated
\* bandwidth is min(base_pattern * device_count, max_bandwidth_mbps) bounded
\* below by 0, so it is never negative and never above max_bandwidth_mbps,
\* whatever the modify-device menu accepted (stated for configurations with
\* every row enabled and no repeated name, where the disabled-row handling
\* of C2 plays no part)
C12_BandwidthWithinBounds ==
    (Running /\ AllEnabled(device_config) /\ DistinctNames(device_config)) =>
        \A k \in 1..Len(device_config) : \A i \in SlotIdx :
            LET device == device_config[k]
                bw == bandwidth_data[device.device][i]
            IN /\ bw >= 0
               /\ bw <= device.max_bandwidth_mbps
               /\ bw = BoundedUsage(device, i)

(***************************************************************************)
(* C13                                                                     *)
(***************************************************************************)
\* Python index of the first maximum of hour h (0..23) of the day
HourlyPeak(total, h) ==
    np_argmax(SubSeq(total, h * 2 + 1, h * 2 + 2)) + h * 2

Starred == { major_peaks[j] : j \in 1..Len(major_peaks) }

\* C13: in the baseline chart the three starred slots are the three highest
\* hourly peaks of the total bandwidth over all 24 hours of the day, and the
\* slot of the daily maximum is one of them
C13_StarsMarkDailyPeaks ==
    (version = "baseline" /\ major_peaks # <<>>) =>
        LET total == get_total_bandwidth(bandwidth_data)
            Peaks == { HourlyPeak(total, h) : h \in 0..23 }
        IN /\ Len(major_peaks) = 3
           /\ Cardinality(Starred) = 3
           /\ Starred \subseteq Peaks
           /\ \A p \in Peaks \ Starred : \A m \in Starred :
                  total[p + 1] <= total[m + 1]
           /\ np_argmax(total) \in Starred

(***************************************************************************)
(* C14                                                                     *)
(***************************************************************************)
BandOnly(band, bw) == [b \in Bands |-> IF b = band THEN bw ELSE 0]

\* the band the laptop rule names for a bandwidth
LaptopBand(bw) ==
    IF bw > 1500 THEN "6GHz" ELSE IF bw > 500 THEN "5GHz" ELSE "2.4GHz"

\* rows of device_config that are the laptop with its default band columns
IsLaptopRow(device) ==
    /\ device.device = "laptop"
    /\ device.enabled
    /\ device.preferred_band = DefaultDeviceConfig[1].preferred_band
    /\ device.wifi_capability = DefaultDeviceConfig[1].wifi_capability

LaptopRuleStatic ==
    version \in {"v8", "v13"} =>
        \A i \in SlotIdx :
            StaticContribution("laptop", i) =
                BandOnly(LaptopBand(bandwidth_data["laptop"][i]),
                         bandwidth_data["laptop"][i])

\* v18: the band table minus the table generated from the same rows with
\* the laptop's series set to zero
LaptopRuleV18 ==
    ( /\ Running
      /\ DistinctNames(device_config)
      /\ \E k \in 1..Len(device_config) : IsLaptopRow(device_config[k]) ) =>
        LET rest == v18_generate_wifi_band_data(
                        device_config, Without(bandwidth_data, "laptop")).data
        IN \A i \in SlotIdx :
              [b \in Bands |-> wifi_band_data[b][i] - rest[b][i]] =
                  BandOnly(LaptopBand(bandwidth_data["laptop"][i]),
                           bandwidth_data["laptop"][i])

\* C14: in v8, v13 and v18 (laptop row with its default band columns) the
\* laptop's bandwidth of a slot is on 6GHz if above 15 Mbps, on 5GHz if above
\* 5 and at most 15, and on 2.4GHz if at most 5, and on no other band
C14_LaptopBandRule ==
    LaptopRuleStatic /\ LaptopRuleV18

\* v18 after the menu modified another device: laptop slots of all three
\* kinds, one of them at exactly 15 Mbps and one at exactly 5 Mbps
C14_Witness ==
    /\ Running /\ last_op = "modify" /\ error = "none"
    /\ DistinctNames(device_config)
    /\ device_config[1] = DefaultDeviceConfig[1]
    /\ \E i, j, k \in SlotIdx :
          /\ bandwidth_data["laptop"][i] = 1500
          /\ wifi_band_data["5GHz"][i] >= 1500
          /\ bandwidth_data["laptop"][j] = 500
          /\ wifi_band_data["2.4GHz"][j] >= 500
          /\ bandwidth_data["laptop"][k] > 1500
          /\ wifi_band_data["6GHz"][k] >= bandwidth_data["laptop"][k]

(***************************************************************************)
(* C15                                                                     *)
(***************************************************************************)
\* the band the smartphone rule of v8 / v13 names for slot i
PhoneBand(i, bw) ==
    IF bw > 800 THEN "6GHz" ELSE IF GymSlot(i) THEN "2.4GHz" ELSE "5GHz"

\* C15: in v8 and v13 the smartphone's bandwidth of a slot is on 6GHz if it
\* is above 8 Mbps; otherwise on 5GHz, except in the slots 15:00 and 15:30
\* where it is on 2.4GHz and not on 5GHz; no band value is negative
C15_SmartphoneBandRule ==
    version \in {"v8", "v13"} =>
        \A i \in SlotIdx :
            /\ StaticContribution("smartphone", i) =
                   BandOnly(PhoneBand(i, bandwidth_data["smartphone"][i]),
                            bandwidth_data["smartphone"][i])
            /\ \A b \in Bands : wifi_band_data[b][i] >= 0

\* v13 after its statistics were printed: the two gym slots hold a phone at
\* most 8 Mbps on 2.4GHz, another slot holds exactly 8 Mbps on 5GHz, and a
\* third one more than 8 Mbps on 6GHz
C15_Witness ==
    /\ version = "v13" /\ stats.computed
    /\ \A i \in SlotIdx : GymSlot(i) =>
          /\ 0 < bandwidth_data["smartphone"][i]
          /\ bandwidth_data["smartphone"][i] <= 800
          /\ wifi_band_data["2.4GHz"][i] >= bandwidth_data["smartphone"][i]
    /\ Cardinality({i \in SlotIdx : GymSlot(i)}) = 2
    /\ \E j, k \in SlotIdx :
          /\ ~GymSlot(j) /\ bandwidth_data["smartphone"][j] = 800
          /\ wifi_band_data["5GHz"][j] >= 800
          /\ bandwidth_data["smartphone"][k] > 800
          /\ wifi_band_data["6GHz"][k] >= bandwidth_data["smartphone"][k]

(***************************************************************************)
(* C16                                                                     *)
(***************************************************************************)
BandRank(b) == IF b = "2.4GHz" THEN 1 ELSE IF b = "5GHz" THEN 2 ELSE 3

\* bandwidth_data is what the generator returns for the current rows
BandwidthFresh ==
    LET g == v18_generate_bandwidth_data(device_config)
    IN g.ok /\ bandwidth_data = g.data

\* what row k adds to the three bands, slot by slot: the band table minus
\* the table generated from the same rows with that device's series zeroed
RowContribution(k) ==
    LET name == device_config[k].device
        rest == v18_generate_wifi_band_data(
                    device_config, Without(bandwidth_data, name)).data
    IN [i \in SlotIdx |-> [b \in Bands |-> wifi_band_data[b][i] - rest[b][i]]]

\* C16: in v18 an enabled device's bandwidth of a slot is on exactly one
\* band, which is its preferred band or a lower one: never above 2.4GHz for
\* a 2.4GHz device, never on 6GHz for a 5GHz device, and on 6GHz only for a
\* device that prefers 6GHz and is WiFi 6E
C16_PreferredBandOrLower ==
    (Running /\ DistinctNames(device_config) /\ BandwidthFresh) =>
        \A k \in 1..Len(device_config) :
            device_config[k].enabled =>
                LET device == device_config[k]
                    c == RowContribution(k)
                IN \A i \in SlotIdx :
                      /\ \E b \in Bands :
                            c[i] = BandOnly(b, bandwidth_data[device.device][i])
                      /\ \A b \in Bands :
                            c[i][b] # 0 =>
                               /\ BandRank(b) <= BandRank(device.preferred_band)
                               /\ b = "6GHz" =>
                                     /\ device.preferred_band = "6GHz"
                                     /\ device.wifi_capability = "WiFi 6E"

\* the imported five-row configuration: the laptop is on 6GHz in some slot,
\* the console (6GHz, WiFi 6E, 12 Mbps) has fallen back to 5GHz, and the
\* smartphone (5GHz) is above 15 Mbps nowhere on 6GHz
C16_Witness ==
    /\ Running /\ last_op = "import" /\ error = "none"
    /\ device_config = console_rows
    /\ BandwidthFresh
    /\ \E i \in SlotIdx :
          /\ bandwidth_data["laptop"][i] > 1500
          /\ wifi_band_data["6GHz"][i] = bandwidth_data["laptop"][i]
    /\ \E i \in SlotIdx :
          /\ bandwidth_data["console"][i] = 1200
          /\ bandwidth_data["smartphone"][i] > 800
          /\ wifi_band_data["6GHz"][i] = 0
          /\ wifi_band_data["5GHz"][i] >= 1200 + bandwidth_data["smartphone"][i]


====
